---- MODULE Spec2Model ----
(***************************************************************************)
(* AI-Horizon frontend and database policies as state machines.            *)
(*                                                                         *)
(* Text values (role names, task ids, search strings, ...) are tuples of   *)
(* one-character strings, so that the empty string, case folding and       *)
(* substring search are computed as the JavaScript code computes them.     *)
(* An optional value (a JavaScript value that may be undefined or null) is *)
(* the empty tuple when absent and a one-element tuple <<v>> when present. *)
(***************************************************************************)
EXTENDS Integers, Sequences, FiniteSets, TLC

VARIABLES
    \* ---- Resources page (app/resources/page.tsx) and CascadeFilter ----
    urlRoleParam,            \* the URL's role query parameter ("" when absent)
    urlPageParam,            \* the URL's page query parameter (optional number)
    urlSubmissionType,       \* the URL's submission_type parameter ("" when absent)
    searchQuery,             \* ResourcesContent searchQuery state
    filters,                 \* ResourcesContent filters state (FilterState)
    selectedCategory,        \* CascadeFilter state
    selectedRole,            \* CascadeFilter state
    selectedTask,            \* CascadeFilter state
    selectedClassifications, \* CascadeFilter state (array, insertion order)
    rolesLoaded,             \* the ['roles'] query has data
    taskCache,               \* roles whose ['tasks', role] query has data
    pendingEffects,          \* passive effects of the last commit not yet run
    pendingUpdates,          \* setFilters updates queued by running effects
    lastRequest,             \* the /api/resources query the page observes
    touched,                 \* the user has used the filter panel since load
    \* ---- axios response interceptor (lib/api.ts) ----
    apiCall,                 \* the last response handled and how its promise settled
    consoleLog,              \* console.error output so far
    \* ---- session id (lib/api.ts getSessionId, sendChatMessage) ----
    hasWindow,               \* typeof window !== 'undefined'
    storedSession,           \* localStorage.getItem(SESSION_KEY) (optional)
    sessionReturned,         \* value returned by the last getSessionId call
    chatPosts,               \* bodies posted to /api/chat, in order
    \* ---- document_registry under row level security ----
    rlsEnabled,              \* ALTER TABLE ... ENABLE ROW LEVEL SECURITY was run
    policies,                \* the policies created on the table
    registry,                \* the table: row id -> stored version (optional)
    lastOp,                  \* the last statement run against the table
    \* ---- Skills page (app/skills/page.tsx) ----
    skSkills,                \* data of the ['skills'] query (optional list)
    skFilters,               \* SkillsPage filters state
    skSearch,                \* SkillsPage searchQuery state
    skShown,                 \* filteredSkills of the last render (optional)
    \* ---- Submit page (app/submit/page.tsx) ----
    activeTab,               \* "url" | "file" | "text"
    url,                     \* URL input
    content,                 \* pasted text
    file,                    \* chosen file (optional)
    result,                  \* SubmitResponse shown (optional)
    loadingMessage,          \* index into LOADING_MESSAGES
    animation,               \* running interval's index (optional)
    submitStatus,            \* submitMutation.status
    uploadStatus,            \* uploadMutation.status
    outbox,                  \* requests started and not yet answered
    \* ---- a call of fetchResources (lib/api.ts) ----
    frParams,                \* the argument of the call
    frSent                   \* the params handed to api.get (optional)

resVars == <<urlRoleParam, urlPageParam, urlSubmissionType, searchQuery, filters,
             selectedCategory,
             selectedRole, selectedTask, selectedClassifications, rolesLoaded,
             taskCache, pendingEffects, pendingUpdates, lastRequest, touched>>

apiVars == <<apiCall, consoleLog>>
sessVars == <<hasWindow, storedSession, sessionReturned, chatPosts>>

rlsVars == <<rlsEnabled, policies, registry, lastOp>>

skVars == <<skSkills, skFilters, skSearch, skShown>>

subVars == <<activeTab, url, content, file, result, loadingMessage, animation,
             submitStatus, uploadStatus, outbox>>

frVars == <<frParams, frSent>>

vars == <<resVars, apiVars, sessVars, rlsVars, skVars, subVars, frVars>>

nonResVars == <<apiVars, sessVars, rlsVars, skVars, subVars, frVars>>
nonApiVars == <<resVars, sessVars, rlsVars, skVars, subVars, frVars>>
nonSessVars == <<resVars, apiVars, rlsVars, skVars, subVars, frVars>>
nonRlsVars == <<resVars, apiVars, sessVars, skVars, subVars, frVars>>
nonSkVars == <<resVars, apiVars, sessVars, rlsVars, subVars, frVars>>
\* The upload mutation reads the session id, so the Submit page frames
\* everything but its own and the session's variables.
nonSubVars == <<resVars, apiVars, rlsVars, skVars, frVars>>
nonFrVars == <<resVars, apiVars, sessVars, rlsVars, skVars, subVars>>

\* ------------------------------------------------------------------ text
Undef == <<>>
Some(v) == <<v>>
Empty == <<>>
All == <<"A", "l", "l">>

\* JavaScript `x || undefined` for a string x: the empty string is falsy.
OrUndefined(s) == IF s = Empty THEN Undef ELSE Some(s)

\* ------------------------------------------------------------- bounds
MaxPage == 2
MaxTyped == 2

\* ---------------------------------------------------------- remote data
\* GET /api/roles: the roles list, fixed for the run.
RolesData ==
    << [id |-> <<"1">>, name |-> <<"R", "a">>, category |-> <<"C", "x">>],
       [id |-> <<"2">>, name |-> <<"R", "b">>, category |-> <<"C", "y">>] >>

RoleNames == {RolesData[i].name : i \in DOMAIN RolesData}

\* GET /api/search?job_role=R: the task ids returned for a role.
TasksData(role) ==
    CASE role = <<"R", "a">> -> {<<"t", "1">>, <<"t", "2">>}
      [] role = <<"R", "b">> -> {<<"t", "2">>}
      [] OTHER -> {}

\* The four classification chips, and the ones the user clicks in a run.
Replace == <<"R", "e", "p", "l", "a", "c", "e">>
Augment == <<"A", "u", "g", "m", "e", "n", "t">>
RemainHuman == <<"R", "e", "m", "a", "i", "n", " ", "H", "u", "m", "a", "n">>
NewTask == <<"N", "e", "w", " ", "T", "a", "s", "k">>
ClassificationLabels == {Replace, Augment, RemainHuman, NewTask}
ClickedLabels == {Replace, Augment}

\* What the user can have in the search box.
TypedStrings == {s \in UNION {[1..n -> {"a"}] : n \in 0..MaxTyped} : TRUE}

\* ------------------------------------------------------- CascadeFilter
roles == IF rolesLoaded THEN RolesData ELSE <<>>
isLoadingRoles == ~rolesLoaded
tasks == IF selectedRole # All /\ selectedRole \in taskCache
         THEN TasksData(selectedRole) ELSE {}
isLoadingTasks == selectedRole # All /\ selectedRole \notin taskCache

categories == {All} \cup {roles[i].category : i \in DOMAIN roles}

filteredRoles ==
    IF selectedCategory = All THEN roles
    ELSE SelectSeq(roles, LAMBDA r : r.category = selectedCategory)

CascadeSelection ==
    [category |-> selectedCategory, role |-> selectedRole,
     taskId |-> selectedTask, classifications |-> selectedClassifications]

DefaultSelection ==
    [category |-> All, role |-> All, taskId |-> All, classifications |-> <<>>]


\* ------------------------------------------------ Resources page: query
Limit == 20

\* Values of the submission_type parameter in the links to /resources.
Evidence == <<"e","v","i","d","e","n","c","e">>
Resource == <<"r","e","s","o","u","r","c","e">>
SubmissionTypes == {Evidence, Resource}

UrlRole == IF urlRoleParam = Empty THEN All ELSE urlRoleParam
Page == IF urlPageParam = Undef THEN 1 ELSE urlPageParam[1]

RoleFilter(f) == IF f.role # All THEN f.role ELSE Empty
TaskFilter(f) == IF f.taskId # All THEN f.taskId ELSE Empty
ClassificationFilter(f) ==
    IF Len(f.classifications) > 0 THEN f.classifications[1] ELSE Empty

\* Mutant: the role is sent under the key the caller used.
BackendParams_JobRoleKey(params) ==
    [page |-> params.page,
     limit |-> params.limit,
     job_role |-> params.job_role,
     resource_type |-> Undef,
     difficulty |-> Undef]

\* lib/api.ts fetchResources: the params object handed to api.get.
BackendParams(params) ==
    [page |-> params.page,
     limit |-> params.limit,
     role |-> params.job_role,
     resource_type |-> Undef,
     difficulty |-> Undef]

fetchResources(params) ==
    LET b == BackendParams(params)
        kept == {k \in DOMAIN b : b[k] # Undef}
    IN  [k \in kept |-> b[k]]

\* The useQuery of the page: its key and the request its queryFn sends.
ResourcesQuery(page, search, f) ==
    [key |-> <<page, search, RoleFilter(f), TaskFilter(f), ClassificationFilter(f)>>,
     params |-> fetchResources(
         [page |-> Some(page),
          limit |-> Some(Limit),
          query |-> Some(search),
          job_role |-> OrUndefined(RoleFilter(f)),
          dcwf_task |-> OrUndefined(TaskFilter(f)),
          classification |-> OrUndefined(ClassificationFilter(f))])]

\* A render of the page: the query observer follows the new key.
Render == lastRequest' = ResourcesQuery(Page', searchQuery', filters')

Settled == pendingEffects = <<>> /\ pendingUpdates = <<>>

\* ---------------------------------------------- CascadeFilter handlers
\* A handler's batched state update of CascadeFilter, and the propagate
\* effect it schedules when a dependency changed.
SetSelection(cat, role, task, cls) ==
    /\ Settled
    /\ selectedCategory' = cat
    /\ selectedRole' = role
    /\ selectedTask' = task
    /\ selectedClassifications' = cls
    /\ touched' = TRUE
    /\ pendingEffects' =
           IF <<cat, role, task, cls>> #
              <<selectedCategory, selectedRole, selectedTask, selectedClassifications>>
           THEN <<"propagate">> ELSE <<>>
    /\ UNCHANGED nonResVars
    /\ UNCHANGED <<urlRoleParam, urlPageParam, urlSubmissionType,
                   searchQuery, filters, rolesLoaded,
                   taskCache, pendingUpdates>>
    /\ Render

\* Mutant: the category handler forgets to reset the role.
SelectCategory_KeepsRole(val) ==
    /\ val \in categories
    /\ SetSelection(val, selectedRole, All, selectedClassifications)

SelectCategory(val) ==
    /\ val \in categories
    /\ SetSelection(val, All, All, selectedClassifications)

\* Mutant: the role handler forgets to reset the task.
SelectRole_KeepsTask(val) ==
    /\ ~isLoadingRoles
    /\ val \in {All} \cup {filteredRoles[i].name : i \in DOMAIN filteredRoles}
    /\ SetSelection(selectedCategory, val, selectedTask, selectedClassifications)

SelectRole(val) ==
    /\ ~isLoadingRoles
    /\ val \in {All} \cup {filteredRoles[i].name : i \in DOMAIN filteredRoles}
    /\ SetSelection(selectedCategory, val, All, selectedClassifications)

SelectTask(val) ==
    /\ ~(selectedRole = All \/ isLoadingTasks)
    /\ val \in {All} \cup tasks
    /\ SetSelection(selectedCategory, selectedRole, val, selectedClassifications)

includes(seq, x) == \E i \in DOMAIN seq : seq[i] = x

toggleClassification(cls) ==
    /\ cls \in ClickedLabels
    /\ SetSelection(selectedCategory, selectedRole, selectedTask,
           IF includes(selectedClassifications, cls)
           THEN SelectSeq(selectedClassifications, LAMBDA c : c # cls)
           ELSE Append(selectedClassifications, cls))

clearFilters ==
    /\ \/ selectedCategory # All
       \/ selectedRole # All
       \/ selectedTask # All
       \/ Len(selectedClassifications) > 0
    /\ SetSelection(All, All, All, <<>>)

\* The roles and tasks queries of CascadeFilter receive their data.
RolesLoaded ==
    /\ Settled
    /\ ~rolesLoaded
    /\ rolesLoaded' = TRUE
    /\ UNCHANGED nonResVars
    /\ UNCHANGED <<urlRoleParam, urlPageParam, urlSubmissionType,
                   searchQuery, filters, selectedCategory,
                   selectedRole, selectedTask, selectedClassifications, taskCache,
                   pendingEffects, pendingUpdates, lastRequest, touched>>

TasksLoaded ==
    /\ Settled
    /\ isLoadingTasks
    /\ taskCache' = taskCache \cup {selectedRole}
    /\ UNCHANGED nonResVars
    /\ UNCHANGED <<urlRoleParam, urlPageParam, urlSubmissionType,
                   searchQuery, filters, selectedCategory,
                   selectedRole, selectedTask, selectedClassifications, rolesLoaded,
                   pendingEffects, pendingUpdates, lastRequest, touched>>

\* ------------------------------------------- Resources page: handlers
\* SearchBar onChange -> setSearchQuery.
SetSearchQuery(val) ==
    /\ Settled
    /\ val \in TypedStrings
    /\ val # searchQuery
    /\ searchQuery' = val
    /\ UNCHANGED nonResVars
    /\ UNCHANGED <<urlRoleParam, urlPageParam, urlSubmissionType, filters,
                   selectedCategory, selectedRole,
                   selectedTask, selectedClassifications, rolesLoaded, taskCache,
                   pendingEffects, pendingUpdates, touched>>
    /\ Render

\* Pagination: router.push with the page parameter replaced.
handlePageChange(newPage) ==
    /\ Settled
    /\ newPage \in 1..MaxPage
    /\ newPage \in {Page - 1, Page + 1}
    /\ urlPageParam' = Some(newPage)
    /\ UNCHANGED nonResVars
    /\ UNCHANGED <<urlRoleParam, urlSubmissionType, searchQuery, filters,
                   selectedCategory, selectedRole,
                   selectedTask, selectedClassifications, rolesLoaded, taskCache,
                   pendingEffects, pendingUpdates, touched>>
    /\ Render

\* The URL's role parameter changes while the page is mounted (a link, the
\* back button). CascadeFilter is keyed by urlRole, so it is re-mounted with
\* its initial state; its mount effect and the page's sync effect are due.
NavigateRole(roleParam) ==
    /\ Settled
    /\ roleParam \in {Empty} \cup RoleNames
    /\ roleParam # urlRoleParam
    /\ urlRoleParam' = roleParam
    /\ urlPageParam' = Undef
    /\ selectedCategory' = All
    /\ selectedRole' = All
    /\ selectedTask' = All
    /\ selectedClassifications' = <<>>
    /\ pendingEffects' = <<"propagate", "sync">>
    /\ UNCHANGED nonResVars
    /\ UNCHANGED <<urlSubmissionType, searchQuery, filters, rolesLoaded, taskCache,
                   pendingUpdates, touched>>
    /\ Render

\* The navbar's "Evidence Library" / "Learning Library" link while the page is
\* mounted: the URL becomes /resources?submission_type=<st>, without role or
\* page. CascadeFilter is re-mounted only when that changes urlRole.
NavigateLibrary(st) ==
    /\ Settled
    /\ st \in SubmissionTypes
    /\ st # urlSubmissionType
    /\ urlSubmissionType' = st
    /\ urlRoleParam' = Empty
    /\ urlPageParam' = Undef
    /\ IF urlRoleParam # Empty
       THEN /\ selectedCategory' = All
            /\ selectedRole' = All
            /\ selectedTask' = All
            /\ selectedClassifications' = <<>>
            /\ pendingEffects' = <<"propagate", "sync">>
       ELSE UNCHANGED <<selectedCategory, selectedRole, selectedTask,
                        selectedClassifications, pendingEffects>>
    /\ UNCHANGED nonResVars
    /\ UNCHANGED <<searchQuery, filters, rolesLoaded, taskCache, pendingUpdates,
                   touched>>
    /\ Render

\* ------------------------------------------------------------ effects
\* CascadeFilter "Propagate changes" effect: onFilterChange -> setFilters.
PropagateEffect ==
    /\ pendingEffects # <<>>
    /\ Head(pendingEffects) = "propagate"
    /\ pendingEffects' = Tail(pendingEffects)
    /\ pendingUpdates' =
           Append(pendingUpdates, [kind |-> "set", value |-> CascadeSelection])
    /\ UNCHANGED nonResVars
    /\ UNCHANGED <<urlRoleParam, urlPageParam, urlSubmissionType,
                   searchQuery, filters, selectedCategory,
                   selectedRole, selectedTask, selectedClassifications, rolesLoaded,
                   taskCache, lastRequest, touched>>

\* ResourcesContent "Sync URL role param" effect; filters is the value of
\* the render that scheduled it.
SyncEffect ==
    /\ pendingEffects # <<>>
    /\ Head(pendingEffects) = "sync"
    /\ pendingEffects' = Tail(pendingEffects)
    /\ pendingUpdates' =
           IF UrlRole # filters.role
           THEN Append(pendingUpdates,
                       [kind |-> "role", value |-> [DefaultSelection EXCEPT !.role = UrlRole]])
           ELSE pendingUpdates
    /\ UNCHANGED nonResVars
    /\ UNCHANGED <<urlRoleParam, urlPageParam, urlSubmissionType,
                   searchQuery, filters, selectedCategory,
                   selectedRole, selectedTask, selectedClassifications, rolesLoaded,
                   taskCache, lastRequest, touched>>

\* One queued setFilters update applied to the previous state.
ApplyUpdate(prev, u) ==
    IF u.kind = "set" THEN u.value ELSE [prev EXCEPT !.role = u.value.role]

RECURSIVE ApplyUpdates(_, _)
ApplyUpdates(prev, us) ==
    IF us = <<>> THEN prev ELSE ApplyUpdates(ApplyUpdate(prev, Head(us)), Tail(us))

\* The re-render after the effects: the queued updates are applied in order.
Commit ==
    /\ pendingEffects = <<>>
    /\ pendingUpdates # <<>>
    /\ filters' = ApplyUpdates(filters, pendingUpdates)
    /\ pendingUpdates' = <<>>
    /\ UNCHANGED nonResVars
    /\ UNCHANGED <<urlRoleParam, urlPageParam, urlSubmissionType,
                   searchQuery, selectedCategory,
                   selectedRole, selectedTask, selectedClassifications, rolesLoaded,
                   taskCache, pendingEffects, touched>>
    /\ Render

\* ------------------------------------------------- Resources page: spec
\* The page is loaded at /resources with any role and page parameter; the
\* first render has happened and the mount effects are due.
ResInit ==
    /\ urlRoleParam \in {Empty} \cup RoleNames
    /\ urlPageParam \in {Undef} \cup {Some(p) : p \in 1..MaxPage}
    /\ urlSubmissionType \in {Empty} \cup SubmissionTypes
    /\ searchQuery = Empty
    /\ filters = [DefaultSelection EXCEPT !.role = UrlRole]
    /\ selectedCategory = All
    /\ selectedRole = All
    /\ selectedTask = All
    /\ selectedClassifications = <<>>
    /\ rolesLoaded = FALSE
    /\ taskCache = {}
    /\ pendingEffects = <<"propagate", "sync">>
    /\ pendingUpdates = <<>>
    /\ lastRequest = ResourcesQuery(Page, searchQuery, filters)
    /\ touched = FALSE

ResNext ==
    \/ \E val \in categories : SelectCategory(val)
    \/ \E val \in {All} \cup RoleNames : SelectRole(val)
    \/ \E val \in {All} \cup tasks : SelectTask(val)
    \/ \E cls \in ClickedLabels : toggleClassification(cls)
    \/ clearFilters
    \/ RolesLoaded
    \/ TasksLoaded
    \/ \E val \in TypedStrings : SetSearchQuery(val)
    \/ \E newPage \in 1..MaxPage : handlePageChange(newPage)
    \/ \E roleParam \in {Empty} \cup RoleNames : NavigateRole(roleParam)
    \/ \E st \in SubmissionTypes : NavigateLibrary(st)
    \/ PropagateEffect
    \/ SyncEffect
    \/ Commit

\* ------------------------------------------------ axios interceptor
\* Responses and errors the interceptor is handed. An error carries the
\* response (with its status) when the server answered, none otherwise.
OkStatuses == {200, 201}
ErrorStatuses == {400, 401, 404, 429, 500, 503}
MaxConsole == 3

Responses == {[kind |-> "response", response |-> Some([status |-> st])] : st \in OkStatuses}
Errors ==
    {[kind |-> "error", response |-> Some([status |-> st])] : st \in ErrorStatuses}
    \cup {[kind |-> "error", response |-> Undef]}

\* Mutant: every status other than 429 is logged as unavailable.
ErrorLog_LogsEveryStatus(error) ==
    IF error.response # Undef
    THEN IF error.response[1].status = 429 THEN <<"Rate limit reached">>
         ELSE <<"Service unavailable">>
    ELSE <<>>

\* What the rejection handler writes to the console for an error.
ErrorLog(error) ==
    IF error.response # Undef
    THEN IF error.response[1].status = 429 THEN <<"Rate limit reached">>
         ELSE IF error.response[1].status = 503 THEN <<"Service unavailable">>
         ELSE <<>>
    ELSE <<>>

\* (response) => response
OnFulfilled(response) ==
    /\ apiCall' = [input |-> response, settled |-> "fulfilled", value |-> response,
                   logged |-> <<>>]
    /\ UNCHANGED consoleLog
    /\ UNCHANGED nonApiVars

\* (error) => { ...console.error...; return Promise.reject(error); }
OnRejected(error) ==
    /\ Len(consoleLog) + Len(ErrorLog(error)) <= MaxConsole
    /\ consoleLog' = consoleLog \o ErrorLog(error)
    /\ apiCall' = [input |-> error, settled |-> "rejected", value |-> error,
                   logged |-> ErrorLog(error)]
    /\ UNCHANGED nonApiVars

NoCall == [input |-> [kind |-> "none", response |-> Undef], settled |-> "none",
           value |-> [kind |-> "none", response |-> Undef], logged |-> <<>>]

ApiIdle == apiCall = NoCall /\ consoleLog = <<>>

\* ------------------------------------------------------- session id
MaxUuid == 3
MaxPosts == 3
Uuids == {<<"u", n>> : n \in 1..MaxUuid}
ChatMessages == {<<"h", "i">>, <<"?">>, <<"q">>}

\* getSessionId: the value returned and the storage it leaves.
falsy(opt) == opt = Undef \/ opt[1] = Empty

\* Mutant: the stored id is not consulted.
GetSessionIdResult_AlwaysFresh(fresh) ==
    IF ~hasWindow THEN [ret |-> Empty, stored |-> storedSession]
    ELSE [ret |-> fresh, stored |-> Some(fresh)]

GetSessionIdResult(fresh) ==
    IF ~hasWindow THEN [ret |-> Empty, stored |-> storedSession]
    ELSE IF falsy(storedSession) THEN [ret |-> fresh, stored |-> Some(fresh)]
    ELSE [ret |-> storedSession[1], stored |-> storedSession]

\* A direct call (ChatPage's session effect, the upload mutation).
getSessionId(fresh) ==
    /\ fresh \in Uuids
    /\ sessionReturned' = Some(GetSessionIdResult(fresh).ret)
    /\ storedSession' = GetSessionIdResult(fresh).stored
    /\ UNCHANGED <<hasWindow, chatPosts>>
    /\ UNCHANGED nonSessVars

sendChatMessage(message, fresh) ==
    /\ fresh \in Uuids
    /\ message \in ChatMessages
    /\ Len(chatPosts) < MaxPosts
    /\ sessionReturned' = Some(GetSessionIdResult(fresh).ret)
    /\ storedSession' = GetSessionIdResult(fresh).stored
    /\ chatPosts' = Append(chatPosts,
           [message |-> message, session_id |-> GetSessionIdResult(fresh).ret])
    /\ UNCHANGED hasWindow
    /\ UNCHANGED nonSessVars

SessIdle ==
    /\ hasWindow = TRUE
    /\ storedSession = Undef
    /\ sessionReturned = Undef
    /\ chatPosts = <<>>

\* ------------------------------- document_registry row level security
MaxRows == 3
MaxVersion == 2
RowIds == 1..MaxRows
Versions == 1..MaxVersion

DbRoles == {"anon", "authenticated", "service_role"}
ClientRoles == {"anon", "authenticated"}
\* service_role bypasses RLS by default (Step 2 of the script).
BypassRoles == {"service_role"}

\* Mutant: the anonymous insert policy is written WITH CHECK (true).
Policies_AnonInsertAllowed ==
    { [name |-> "Service role has full access", cmd |-> "ALL",
       role |-> "service_role", using |-> Some(TRUE), check |-> Some(TRUE)],
      [name |-> "Authenticated users can read all documents", cmd |-> "SELECT",
       role |-> "authenticated", using |-> Some(TRUE), check |-> Undef],
      [name |-> "Anonymous users can read all documents", cmd |-> "SELECT",
       role |-> "anon", using |-> Some(TRUE), check |-> Undef],
      [name |-> "Deny anonymous inserts", cmd |-> "INSERT",
       role |-> "anon", using |-> Undef, check |-> Some(TRUE)],
      [name |-> "Deny anonymous updates", cmd |-> "UPDATE",
       role |-> "anon", using |-> Some(FALSE), check |-> Some(FALSE)],
      [name |-> "Deny anonymous deletes", cmd |-> "DELETE",
       role |-> "anon", using |-> Some(FALSE), check |-> Undef] }

\* The CREATE POLICY statements of the script, Steps 2 to 7.
Policies ==
    { [name |-> "Service role has full access", cmd |-> "ALL",
       role |-> "service_role", using |-> Some(TRUE), check |-> Some(TRUE)],
      [name |-> "Authenticated users can read all documents", cmd |-> "SELECT",
       role |-> "authenticated", using |-> Some(TRUE), check |-> Undef],
      [name |-> "Anonymous users can read all documents", cmd |-> "SELECT",
       role |-> "anon", using |-> Some(TRUE), check |-> Undef],
      [name |-> "Deny anonymous inserts", cmd |-> "INSERT",
       role |-> "anon", using |-> Undef, check |-> Some(FALSE)],
      [name |-> "Deny anonymous updates", cmd |-> "UPDATE",
       role |-> "anon", using |-> Some(FALSE), check |-> Some(FALSE)],
      [name |-> "Deny anonymous deletes", cmd |-> "DELETE",
       role |-> "anon", using |-> Some(FALSE), check |-> Undef] }

\* Permissive policies that apply to a role's command; they are OR-ed, and
\* with RLS enabled and none applicable the default is to deny.
Applicable(role, cmd) ==
    {p \in policies : p.role = role /\ p.cmd \in {"ALL", cmd}}

\* Existing rows the command may see or touch (USING).
UsingOk(role, cmd) ==
    \/ ~rlsEnabled
    \/ role \in BypassRoles
    \/ \E p \in Applicable(role, cmd) : p.using = Some(TRUE)

\* New rows the command may write (WITH CHECK, USING when it is omitted).
CheckOk(role, cmd) ==
    \/ ~rlsEnabled
    \/ role \in BypassRoles
    \/ \E p \in Applicable(role, cmd) :
           (IF p.check # Undef THEN p.check ELSE p.using) = Some(TRUE)

PresentRows == {id \in RowIds : registry[id] # Undef}

RlsSelect(role) ==
    /\ role \in DbRoles
    /\ lastOp' = [role |-> role, cmd |-> "SELECT",
                  rows |-> IF UsingOk(role, "SELECT") THEN PresentRows ELSE {},
                  error |-> FALSE]
    /\ UNCHANGED <<rlsEnabled, policies, registry>>
    /\ UNCHANGED nonRlsVars

RlsInsert(role, id, v) ==
    /\ role \in DbRoles /\ id \in RowIds /\ v \in Versions
    /\ registry[id] = Undef
    /\ IF CheckOk(role, "INSERT")
       THEN /\ registry' = [registry EXCEPT ![id] = Some(v)]
            /\ lastOp' = [role |-> role, cmd |-> "INSERT", rows |-> {id}, error |-> FALSE]
       ELSE /\ UNCHANGED registry
            /\ lastOp' = [role |-> role, cmd |-> "INSERT", rows |-> {}, error |-> TRUE]
    /\ UNCHANGED <<rlsEnabled, policies>>
    /\ UNCHANGED nonRlsVars

\* UPDATE ... WHERE id = ...: rows hidden by USING (of the UPDATE and of
\* the SELECT policies) are skipped; a new row failing WITH CHECK is an error.
RlsUpdate(role, id, v) ==
    /\ role \in DbRoles /\ id \in RowIds /\ v \in Versions
    /\ registry[id] # Undef
    /\ IF ~(UsingOk(role, "UPDATE") /\ UsingOk(role, "SELECT"))
       THEN /\ UNCHANGED registry
            /\ lastOp' = [role |-> role, cmd |-> "UPDATE", rows |-> {}, error |-> FALSE]
       ELSE IF ~CheckOk(role, "UPDATE")
       THEN /\ UNCHANGED registry
            /\ lastOp' = [role |-> role, cmd |-> "UPDATE", rows |-> {}, error |-> TRUE]
       ELSE /\ registry' = [registry EXCEPT ![id] = Some(v)]
            /\ lastOp' = [role |-> role, cmd |-> "UPDATE", rows |-> {id}, error |-> FALSE]
    /\ UNCHANGED <<rlsEnabled, policies>>
    /\ UNCHANGED nonRlsVars

RlsDelete(role, id) ==
    /\ role \in DbRoles /\ id \in RowIds
    /\ registry[id] # Undef
    /\ IF UsingOk(role, "DELETE") /\ UsingOk(role, "SELECT")
       THEN /\ registry' = [registry EXCEPT ![id] = Undef]
            /\ lastOp' = [role |-> role, cmd |-> "DELETE", rows |-> {id}, error |-> FALSE]
       ELSE /\ UNCHANGED registry
            /\ lastOp' = [role |-> role, cmd |-> "DELETE", rows |-> {}, error |-> FALSE]
    /\ UNCHANGED <<rlsEnabled, policies>>
    /\ UNCHANGED nonRlsVars

NoOp == [role |-> "none", cmd |-> "none", rows |-> {}, error |-> FALSE]

RlsIdle ==
    /\ rlsEnabled = TRUE
    /\ policies = Policies
    /\ registry = [id \in RowIds |-> Undef]
    /\ lastOp = NoOp

\* --------------------------------------------------------- Skills page
MaxSkills == 2
MaxSearchLen == 2

\* String.prototype.toLowerCase and String.prototype.includes.
LowerChar(c) ==
    CASE c = "A" -> "a" [] c = "C" -> "c" [] c = "R" -> "r" [] OTHER -> c
toLowerCase(str) == [i \in DOMAIN str |-> LowerChar(str[i])]
strIncludes(str, q) ==
    \E i \in 0..(Len(str) - Len(q)) : SubSeq(str, i + 1, i + Len(q)) = q

\* SkillItems the /api/skills response is drawn from.
Counts(r, a, h, n) ==
    (Replace :> r) @@ (Augment :> a) @@ (RemainHuman :> h) @@ (NewTask :> n)
SkillPool ==
    { [name |-> <<"R", "a">>, id |-> <<"1">>, category |-> <<"C", "x">>,
       classifications |-> Counts(2, 0, 0, 0)],
      [name |-> <<"R", "b">>, id |-> <<"2">>, category |-> <<"C", "y">>,
       classifications |-> Counts(0, 1, 1, 0)],
      [name |-> <<"a", "b">>, id |-> <<"3">>, category |-> <<"C", "y">>,
       classifications |-> Counts(0, 0, 0, 0)] }
SkillLists == UNION {[1..n -> SkillPool] : n \in 0..MaxSkills}

SkillTaskIds == {All, <<"t", "1">>}
SkillFilterStates ==
    [category : {All, <<"C", "x">>, <<"C", "y">>},
     role : {All, <<"R", "a">>, <<"R", "b">>},
     taskId : SkillTaskIds,
     classifications : {<<>>, <<Replace>>, <<Augment>>, <<Replace, Augment>>,
                        <<Augment, Replace>>}]
SearchAlphabet == {"A", "1", "c"}
SearchStrings == UNION {[1..n -> SearchAlphabet] : n \in 0..MaxSearchLen}

\* skill.classifications[key] > 0, undefined for a key the object lacks.
HasCount(skill, key) ==
    key \in DOMAIN skill.classifications /\ skill.classifications[key] > 0

\* Mutant: the skill's fields are compared without lower-casing them.
SkillPasses_CaseSensitive(skill, f, search) ==
    IF f.category # All /\ skill.category # f.category THEN FALSE
    ELSE IF f.role # All /\ skill.name # f.role THEN FALSE
    ELSE IF /\ Len(f.classifications) > 0
            /\ ~\E i \in DOMAIN f.classifications : HasCount(skill, f.classifications[i])
         THEN FALSE
    ELSE IF search # Empty
         THEN LET q == toLowerCase(search)
              IN  \/ strIncludes(skill.name, q)
                  \/ strIncludes(skill.id, q)
                  \/ strIncludes(skill.category, q)
    ELSE TRUE

\* Mutant: a skill needs a positive count for every checked classification.
SkillPasses_AllOf(skill, f, search) ==
    IF f.category # All /\ skill.category # f.category THEN FALSE
    ELSE IF f.role # All /\ skill.name # f.role THEN FALSE
    ELSE IF /\ Len(f.classifications) > 0
            /\ ~\A i \in DOMAIN f.classifications : HasCount(skill, f.classifications[i])
         THEN FALSE
    ELSE IF search # Empty
         THEN LET q == toLowerCase(search)
              IN  \/ strIncludes(toLowerCase(skill.name), q)
                  \/ strIncludes(toLowerCase(skill.id), q)
                  \/ strIncludes(toLowerCase(skill.category), q)
    ELSE TRUE

\* Mutant: a selected task hides every role card.
SkillPasses_TaskFilters(skill, f, search) ==
    IF f.category # All /\ skill.category # f.category THEN FALSE
    ELSE IF f.role # All /\ skill.name # f.role THEN FALSE
    ELSE IF f.taskId # All THEN FALSE
    ELSE IF /\ Len(f.classifications) > 0
            /\ ~\E i \in DOMAIN f.classifications : HasCount(skill, f.classifications[i])
         THEN FALSE
    ELSE IF search # Empty
         THEN LET q == toLowerCase(search)
              IN  \/ strIncludes(toLowerCase(skill.name), q)
                  \/ strIncludes(toLowerCase(skill.id), q)
                  \/ strIncludes(toLowerCase(skill.category), q)
    ELSE TRUE

\* The callback of skills.filter in the filteredSkills memo.
SkillPasses(skill, f, search) ==
    IF f.category # All /\ skill.category # f.category THEN FALSE
    ELSE IF f.role # All /\ skill.name # f.role THEN FALSE
    ELSE IF /\ Len(f.classifications) > 0
            /\ ~\E i \in DOMAIN f.classifications : HasCount(skill, f.classifications[i])
         THEN FALSE
    ELSE IF search # Empty
         THEN LET q == toLowerCase(search)
              IN  \/ strIncludes(toLowerCase(skill.name), q)
                  \/ strIncludes(toLowerCase(skill.id), q)
                  \/ strIncludes(toLowerCase(skill.category), q)
    ELSE TRUE

filteredSkills(skillsOpt, f, search) ==
    IF skillsOpt = Undef THEN <<>>
    ELSE SelectSeq(skillsOpt[1], LAMBDA skill : SkillPasses(skill, f, search))

\* A render of SkillsPage evaluates the memo.
RenderSkills ==
    /\ skShown = Undef
    /\ skShown' = Some(filteredSkills(skSkills, skFilters, skSearch))
    /\ UNCHANGED <<skSkills, skFilters, skSearch>>
    /\ UNCHANGED nonSkVars

\* onFilterChange of the page's CascadeFilter: setFilters, and the re-render
\* evaluates the memo with the new filters.
handleFilterChange(newFilters) ==
    /\ skShown # Undef
    /\ newFilters # skFilters
    /\ skFilters' = newFilters
    /\ skShown' = Some(filteredSkills(skSkills, newFilters, skSearch))
    /\ UNCHANGED <<skSkills, skSearch>>
    /\ UNCHANGED nonSkVars

\* A classification chip of the page's CascadeFilter is clicked.
SkToggleClassification(cls) ==
    /\ cls \in ClickedLabels
    /\ handleFilterChange(
           [skFilters EXCEPT !.classifications =
               IF includes(skFilters.classifications, cls)
               THEN SelectSeq(skFilters.classifications, LAMBDA c : c # cls)
               ELSE Append(skFilters.classifications, cls)])

\* A task is chosen in the page's CascadeFilter (enabled once a role is).
SkSelectTask(val) ==
    /\ skFilters.role # All
    /\ val \in SkillTaskIds
    /\ handleFilterChange([skFilters EXCEPT !.taskId = val])

SkIdle ==
    /\ skSkills = Undef
    /\ skFilters = DefaultSelection
    /\ skSearch = Empty
    /\ skShown = Undef

\* --------------------------------------------------------- Submit page
NumLoadingMessages == 5

UrlInputs == {Empty, <<"u">>}
ContentInputs == {Empty, <<"c">>}
Files == {<<"f">>}

\* Responses of /api/submit and /api/upload, by the fields the page reads.
SubmitResponses ==
    { [success |-> TRUE, is_duplicate |-> TRUE, is_relevant |-> Undef,
       classification |-> Undef],
      [success |-> TRUE, is_duplicate |-> FALSE, is_relevant |-> Some(FALSE),
       classification |-> Undef],
      [success |-> TRUE, is_duplicate |-> FALSE, is_relevant |-> Some(TRUE),
       classification |-> Some("evidence")],
      [success |-> FALSE, is_duplicate |-> FALSE, is_relevant |-> Undef,
       classification |-> Undef] }

isPending == submitStatus = "pending" \/ uploadStatus = "pending"

\* Which of the page's returns renders: a result view or the form.
View ==
    IF result # Undef /\ result[1].is_duplicate THEN "duplicate"
    ELSE IF result # Undef /\ result[1].is_relevant = Some(FALSE) THEN "irrelevant"
    ELSE IF result # Undef /\ result[1].success /\ result[1].classification # Undef
         THEN "classified"
    ELSE "form"

setActiveTab(tab) ==
    /\ View = "form"
    /\ tab \in {"url", "file", "text"}
    /\ activeTab' = tab
    /\ UNCHANGED <<url, content, file, result, loadingMessage, animation,
                   submitStatus, uploadStatus, outbox>>
    /\ UNCHANGED <<nonSubVars, sessVars>>

setUrl(val) ==
    /\ View = "form" /\ ~isPending /\ activeTab = "url"
    /\ val \in UrlInputs
    /\ url' = val
    /\ UNCHANGED <<activeTab, content, file, result, loadingMessage, animation,
                   submitStatus, uploadStatus, outbox>>
    /\ UNCHANGED <<nonSubVars, sessVars>>

setContent(val) ==
    /\ View = "form" /\ ~isPending /\ activeTab = "text"
    /\ val \in ContentInputs
    /\ content' = val
    /\ UNCHANGED <<activeTab, url, file, result, loadingMessage, animation,
                   submitStatus, uploadStatus, outbox>>
    /\ UNCHANGED <<nonSubVars, sessVars>>

\* File chosen or dropped (Some), or "Remove File" (Undef).
setFile(val) ==
    /\ View = "form" /\ ~isPending /\ activeTab = "file"
    /\ val \in {Undef} \cup {Some(f) : f \in Files}
    /\ (val = Undef) = (file # Undef)
    /\ file' = val
    /\ UNCHANGED <<activeTab, url, content, result, loadingMessage, animation,
                   submitStatus, uploadStatus, outbox>>
    /\ UNCHANGED <<nonSubVars, sessVars>>

\* onMutate of either mutation: setResult(null), startLoadingAnimation.
OnMutate ==
    /\ result' = Undef
    /\ animation' = Some(0)
    /\ UNCHANGED loadingMessage

\* submitMutation.mutate(payload): POST /api/submit.
MutateSubmit(payload) ==
    /\ OnMutate
    /\ submitStatus' = "pending"
    /\ outbox' = Append(outbox, [path |-> "/api/submit", body |-> payload])
    /\ UNCHANGED <<activeTab, url, content, file, uploadStatus>>
    /\ UNCHANGED <<nonSubVars, sessVars>>

\* uploadMutation.mutate(file): POST /api/upload with the file and getSessionId().
MutateUpload(fileToUpload, fresh) ==
    /\ OnMutate
    /\ uploadStatus' = "pending"
    /\ sessionReturned' = Some(GetSessionIdResult(fresh).ret)
    /\ storedSession' = GetSessionIdResult(fresh).stored
    /\ outbox' = Append(outbox,
           [path |-> "/api/upload",
            body |-> [file |-> fileToUpload,
                      session_id |-> GetSessionIdResult(fresh).ret]])
    /\ UNCHANGED <<activeTab, url, content, file, submitStatus>>
    /\ UNCHANGED <<nonSubVars, hasWindow, chatPosts>>

\* Mutant: the handler looks at the inputs but not at the active tab.
handleSubmit_IgnoresTab(fresh) ==
    /\ View = "form" /\ ~isPending
    /\ fresh \in Uuids
    /\ IF url # Empty THEN MutateSubmit([url |-> url])
       ELSE IF content # Empty THEN MutateSubmit([content |-> content])
       ELSE IF file # Undef THEN MutateUpload(file[1], fresh)
       ELSE UNCHANGED vars

\* The form's onSubmit; the form is rendered and its button enabled.
handleSubmit(fresh) ==
    /\ View = "form" /\ ~isPending
    /\ fresh \in Uuids
    /\ IF activeTab = "url" /\ url # Empty THEN MutateSubmit([url |-> url])
       ELSE IF activeTab = "text" /\ content # Empty
            THEN MutateSubmit([content |-> content])
       ELSE IF activeTab = "file" /\ file # Undef THEN MutateUpload(file[1], fresh)
       ELSE UNCHANGED vars

\* The interval of startLoadingAnimation fires.
LoadingTick ==
    /\ animation # Undef
    /\ animation' = Some((animation[1] + 1) % NumLoadingMessages)
    /\ loadingMessage' = (animation[1] + 1) % NumLoadingMessages
    /\ UNCHANGED <<activeTab, url, content, file, result, submitStatus, uploadStatus,
                   outbox>>
    /\ UNCHANGED <<nonSubVars, sessVars>>

\* The pending request is answered: onSuccess.
MutationSuccess(data) ==
    /\ outbox # <<>>
    /\ data \in SubmitResponses
    /\ outbox' = Tail(outbox)
    /\ animation' = Undef
    /\ result' = Some(data)
    /\ IF Head(outbox).path = "/api/submit"
       THEN submitStatus' = "success" /\ UNCHANGED uploadStatus
       ELSE uploadStatus' = "success" /\ UNCHANGED submitStatus
    /\ UNCHANGED <<activeTab, url, content, file, loadingMessage>>
    /\ UNCHANGED <<nonSubVars, sessVars>>

\* The pending request fails: onError.
MutationError ==
    /\ outbox # <<>>
    /\ outbox' = Tail(outbox)
    /\ animation' = Undef
    /\ IF Head(outbox).path = "/api/submit"
       THEN submitStatus' = "error" /\ UNCHANGED uploadStatus
       ELSE uploadStatus' = "error" /\ UNCHANGED submitStatus
    /\ UNCHANGED <<activeTab, url, content, file, result, loadingMessage>>
    /\ UNCHANGED <<nonSubVars, sessVars>>

\* "Submit Another" / "Try Different Content" on a result view.
resetForm ==
    /\ View # "form"
    /\ result' = Undef
    /\ url' = Empty
    /\ content' = Empty
    /\ file' = Undef
    /\ UNCHANGED <<activeTab, loadingMessage, animation, submitStatus, uploadStatus,
                   outbox>>
    /\ UNCHANGED <<nonSubVars, sessVars>>

SubIdle ==
    /\ activeTab = "url"
    /\ url = Empty
    /\ content = Empty
    /\ file = Undef
    /\ result = Undef
    /\ loadingMessage = 0
    /\ animation = Undef
    /\ submitStatus = "idle"
    /\ uploadStatus = "idle"
    /\ outbox = <<>>

\* ------------------------------------------------ a fetchResources call
\* Arguments of fetchResources: SearchParams with page and limit, every field
\* optional; job_role may be the empty string.
FetchInputs ==
    [page : {Undef} \cup {Some(p) : p \in 1..MaxPage},
     limit : {Undef, Some(Limit)},
     query : {Undef, Some(<<"a">>)},
     job_role : {Undef, Some(Empty)} \cup {Some(r) : r \in RoleNames},
     dcwf_task : {Undef, Some(<<"t", "1">>)},
     classification : {Undef, Some(Replace)}]

CallFetchResources ==
    /\ frSent = Undef
    /\ frSent' = Some(fetchResources(frParams))
    /\ UNCHANGED frParams
    /\ UNCHANGED nonFrVars

FrIdle ==
    /\ frParams = [page |-> Undef, limit |-> Undef, query |-> Undef,
                   job_role |-> Undef, dcwf_task |-> Undef, classification |-> Undef]
    /\ frSent = Undef

\* ------------------------------------------------------ specifications
ResIdle ==
    /\ urlRoleParam = Empty
    /\ urlPageParam = Undef
    /\ urlSubmissionType = Empty
    /\ searchQuery = Empty
    /\ filters = DefaultSelection
    /\ selectedCategory = All
    /\ selectedRole = All
    /\ selectedTask = All
    /\ selectedClassifications = <<>>
    /\ rolesLoaded = FALSE
    /\ taskCache = {}
    /\ pendingEffects = <<>>
    /\ pendingUpdates = <<>>
    /\ lastRequest = ResourcesQuery(1, Empty, DefaultSelection)
    /\ touched = FALSE

\* The Resources page with its CascadeFilter and SearchBar.
Init == ResInit /\ ApiIdle /\ SessIdle /\ RlsIdle /\ SkIdle /\ SubIdle /\ FrIdle
Next == ResNext
Spec == Init /\ [][Next]_vars

\* The axios response interceptor handling responses and errors.
ApiInit == ApiIdle /\ ResIdle /\ SessIdle /\ RlsIdle /\ SkIdle /\ SubIdle /\ FrIdle
ApiNext ==
    \/ \E response \in Responses : OnFulfilled(response)
    \/ \E error \in Errors : OnRejected(error)
SpecApi == ApiInit /\ [][ApiNext]_vars

\* Session ids: a server render (no window) or a browser whose storage is
\* empty or holds the id of an earlier visit.
SessInit ==
    /\ hasWindow \in BOOLEAN
    /\ storedSession \in {Undef} \cup (IF hasWindow THEN {Some(u) : u \in Uuids} ELSE {})
    /\ sessionReturned = Undef
    /\ chatPosts = <<>>
    /\ ResIdle /\ ApiIdle /\ RlsIdle /\ SkIdle /\ SubIdle /\ FrIdle
SessNext ==
    \/ \E fresh \in Uuids : getSessionId(fresh)
    \/ \E message \in ChatMessages, fresh \in Uuids : sendChatMessage(message, fresh)
SpecSession == SessInit /\ [][SessNext]_vars

\* document_registry after the script has run, used by the backend
\* (service_role) and by clients holding the anon or a user key.
RlsInit == RlsIdle /\ ResIdle /\ ApiIdle /\ SessIdle /\ SkIdle /\ SubIdle /\ FrIdle
RlsNext ==
    \/ \E role \in DbRoles : RlsSelect(role)
    \/ \E role \in DbRoles, id \in RowIds, v \in Versions : RlsInsert(role, id, v)
    \/ \E role \in DbRoles, id \in RowIds, v \in Versions : RlsUpdate(role, id, v)
    \/ \E role \in DbRoles, id \in RowIds : RlsDelete(role, id)
SpecRls == RlsInit /\ [][RlsNext]_vars

\* The Skills page memo on every skills list (or none yet), filter state
\* and search string within the bounds.
SkInit ==
    /\ skSkills \in {Undef} \cup {Some(l) : l \in SkillLists}
    /\ skFilters \in SkillFilterStates
    /\ skSearch \in SearchStrings
    /\ skShown = Undef
    /\ ResIdle /\ ApiIdle /\ SessIdle /\ RlsIdle /\ SubIdle /\ FrIdle
SkNext ==
    \/ RenderSkills
    \/ \E cls \in ClickedLabels : SkToggleClassification(cls)
    \/ \E val \in SkillTaskIds : SkSelectTask(val)
SpecSkills == SkInit /\ [][SkNext]_vars

\* The Submit page in a browser, from its first render.
SubInit == SubIdle /\ ResIdle /\ ApiIdle /\ SessIdle /\ RlsIdle /\ SkIdle /\ FrIdle
SubNext ==
    \/ \E tab \in {"url", "file", "text"} : setActiveTab(tab)
    \/ \E val \in UrlInputs : setUrl(val)
    \/ \E val \in ContentInputs : setContent(val)
    \/ \E val \in {Undef} \cup {Some(f) : f \in Files} : setFile(val)
    \/ \E fresh \in Uuids : handleSubmit(fresh)
    \/ LoadingTick
    \/ \E data \in SubmitResponses : MutationSuccess(data)
    \/ MutationError
    \/ resetForm
SpecSubmit == SubInit /\ [][SubNext]_vars

\* One call of fetchResources on every argument within the bounds.
FrInit ==
    /\ frParams \in FetchInputs
    /\ frSent = Undef
    /\ ResIdle /\ ApiIdle /\ SessIdle /\ RlsIdle /\ SkIdle /\ SubIdle
FrNext == CallFetchResources
SpecFetch == FrInit /\ [][FrNext]_vars


\* ===================================================================
\* Claims
\* ===================================================================

\* C1: CascadeFilter drill-down invariant: in every reachable state a
\* selected task (selectedTask other than "All") implies a selected role
\* (selectedRole other than "All").
C1_TaskImpliesRole == selectedTask # All => selectedRole # All

\* C1 witness: a task has been selected under a role.
C1_Witness == selectedTask # All /\ selectedRole # All /\ touched

\* C2: CascadeFilter category/role consistency: whenever both a category and
\* a role are selected, the roles list holds a role of that name whose
\* category is the selected category.
C2_RoleInCategory ==
    (selectedCategory # All /\ selectedRole # All) =>
        \E i \in DOMAIN RolesData :
            /\ RolesData[i].name = selectedRole
            /\ RolesData[i].category = selectedCategory

\* C2 witness: a role has been selected under a selected category.
C2_Witness == selectedCategory # All /\ selectedRole # All

\* C3 (as claimed): once the mount / URL-change effects have settled and
\* before the user touches the filter panel, filters.role equals the URL's
\* role parameter ("All" when absent) and the resources request carries it.
C3_UrlRoleSynced ==
    (Settled /\ ~touched) =>
        /\ filters.role = UrlRole
        /\ lastRequest.key[3] = (IF UrlRole = All THEN Empty ELSE UrlRole)

\* C4 (as claimed): the parameters of the /api/resources request carry
\* page, limit and every active filter: role, task, classification and
\* search text.
C4_RequestCarriesFilters ==
    LET p == lastRequest.params
        carries(k, v) == k \in DOMAIN p /\ p[k] = Some(v)
    IN  /\ carries("page", Page)
        /\ carries("limit", Limit)
        /\ RoleFilter(filters) # Empty => carries("role", RoleFilter(filters))
        /\ TaskFilter(filters) # Empty => carries("dcwf_task", TaskFilter(filters))
        /\ ClassificationFilter(filters) # Empty =>
               carries("classification", ClassificationFilter(filters))
        /\ searchQuery # Empty => carries("query", searchQuery)

\* C5 (as claimed): search is debounced: a keystroke does not itself issue a
\* request. Any string may be replaced by a further keystroke before the
\* debounce interval elapses, so a request may only follow a pause, never
\* the step that changes the search string.
C5_SearchDebounced ==
    [][searchQuery' # searchQuery => lastRequest' = lastRequest]_vars


\* C6: the response interceptor rejects every failed response with the
\* original error, whatever its status; statuses 429 and 503 log exactly one
\* console message and no other error logs anything; a successful response
\* is passed through unchanged.
C6_InterceptorPassesThrough ==
    /\ apiCall.input.kind = "error" =>
           /\ apiCall.settled = "rejected"
           /\ apiCall.value = apiCall.input
           /\ Len(apiCall.logged) =
                  (IF /\ apiCall.input.response # Undef
                      /\ apiCall.input.response[1].status \in {429, 503}
                   THEN 1 ELSE 0)
    /\ apiCall.input.kind = "response" =>
           /\ apiCall.settled = "fulfilled"
           /\ apiCall.value = apiCall.input
           /\ apiCall.logged = <<>>

\* C6 witness: an error with a status other than 429 and 503 was handled
\* after a logged one.
C6_Witness ==
    /\ apiCall.input.kind = "error"
    /\ apiCall.input.response # Undef
    /\ apiCall.input.response[1].status = 500
    /\ Len(consoleLog) > 0

\* C8: getSessionId is get-or-create: once an id is stored it is never
\* replaced, and in a browser every call (direct or from sendChatMessage)
\* returns the stored id; without a window the call returns the empty
\* string and leaves storage alone.
C8_SessionGetOrCreate ==
    [][/\ storedSession # Undef => storedSession' = storedSession
       /\ hasWindow =>
              /\ storedSession' # Undef
              /\ sessionReturned' = storedSession'
              /\ \A i \in DOMAIN chatPosts' :
                     chatPosts'[i].session_id = storedSession'[1]
       /\ ~hasWindow =>
              /\ sessionReturned' = Some(Empty)
              /\ storedSession' = storedSession]_vars

\* C8 witness: a first call created the id and later chat messages carried it.
C8_Witness ==
    /\ hasWindow
    /\ storedSession # Undef
    /\ Len(chatPosts) >= 2
    /\ chatPosts[1].session_id = chatPosts[2].session_id


\* C9: with the script's policies on document_registry, anon and
\* authenticated may SELECT every row but their INSERT, UPDATE and DELETE
\* affect no row, service_role may perform every command, and no statement
\* of a client role changes the table.
C9_ClientsReadOnly ==
    [][/\ lastOp'.cmd = "SELECT" => lastOp'.rows = PresentRows
       /\ (lastOp'.role \in ClientRoles /\ lastOp'.cmd # "SELECT") => lastOp'.rows = {}
       /\ lastOp'.role \in ClientRoles => registry' = registry
       /\ (lastOp'.role = "service_role" /\ lastOp'.cmd \in {"INSERT", "UPDATE", "DELETE"})
              => (lastOp'.rows # {} /\ ~lastOp'.error)]_vars

\* C9 witness: an anonymous INSERT was refused on a table the backend filled.
C9_Witness ==
    /\ lastOp.role = "anon"
    /\ lastOp.cmd = "INSERT"
    /\ lastOp.error
    /\ PresentRows # {}


\* C7: filteredSkills is exactly the subsequence, in the original order, of
\* the skills whose category and name match the selected category and role
\* (or these are "All"), that have a positive count for some checked
\* classification (or none is checked), and whose name, id or category
\* contains the search string ignoring case (or the search is empty); the
\* default filters with an empty search give the whole list, and skills not
\* yet loaded give the empty list.
C7_Selected(skill) ==
    /\ skFilters.category = All \/ skFilters.category = skill.category
    /\ skFilters.role = All \/ skFilters.role = skill.name
    /\ \/ skFilters.classifications = <<>>
       \/ \E i \in DOMAIN skFilters.classifications :
              skill.classifications[skFilters.classifications[i]] > 0
    /\ \/ skSearch = Empty
       \/ \E field \in {skill.name, skill.id, skill.category} :
              strIncludes(toLowerCase(field), toLowerCase(skSearch))

C7_FilteredSkillsExact ==
    skShown # Undef =>
        /\ skSkills = Undef => skShown[1] = <<>>
        /\ skSkills # Undef =>
               /\ skShown[1] = SelectSeq(skSkills[1], C7_Selected)
               /\ (skFilters = DefaultSelection /\ skSearch = Empty)
                      => skShown[1] = skSkills[1]

\* C7 witness: a render where the search matched only by ignoring case and
\* a checked classification removed a skill.
C7_Witness ==
    /\ skShown # Undef
    /\ skSkills # Undef
    /\ skSearch = <<"c">>
    /\ skFilters.classifications = <<Replace>>
    /\ Len(skSkills[1]) = 2
    /\ Len(skShown[1]) = 1


\* C10: a form submit starts exactly one request and it matches the active
\* tab (url tab: POST /api/submit {url}; text tab: POST /api/submit
\* {content}; file tab: the upload of the chosen file); when the active tab's
\* input is empty no request is started and nothing changes, whatever the
\* other tabs hold.
C10_ActiveInput ==
    CASE activeTab = "url" -> url # Empty
      [] activeTab = "text" -> content # Empty
      [] OTHER -> file # Undef

C10_SubmitMatchesTab ==
    [][(\E fresh \in Uuids : handleSubmit(fresh)) =>
          IF C10_ActiveInput
          THEN /\ Len(outbox') = Len(outbox) + 1
               /\ LET req == outbox'[Len(outbox')]
                  IN  CASE activeTab = "url" ->
                               req.path = "/api/submit" /\ req.body = [url |-> url]
                        [] activeTab = "text" ->
                               req.path = "/api/submit" /\ req.body = [content |-> content]
                        [] OTHER ->
                               req.path = "/api/upload" /\ req.body.file = file[1]
               /\ (activeTab = "file") = (uploadStatus' = "pending")
               /\ (activeTab # "file") = (submitStatus' = "pending")
          ELSE UNCHANGED vars]_vars

\* C10 witness: the text tab's content was submitted while the url tab's
\* input was filled too.
C10_Witness ==
    /\ activeTab = "text"
    /\ url # Empty
    /\ outbox = <<[path |-> "/api/submit", body |-> [content |-> content]]>>


\* C11: on the Resources page, going from one library to the other
\* (submission_type evidence <-> resource) for the same role changes the
\* /api/resources request.
C11_SubmissionTypeInRequest ==
    [][(/\ urlSubmissionType \in SubmissionTypes
        /\ urlSubmissionType' \in SubmissionTypes
        /\ urlSubmissionType' # urlSubmissionType
        /\ urlRoleParam' = urlRoleParam
        /\ filters'.role = filters.role)
       => lastRequest'.params # lastRequest.params]_vars


\* C12: once the effects have settled, the page's filters state equals the
\* selection CascadeFilter holds and displays (category, role, taskId and
\* classifications), whatever selections, toggles, resets and URL role
\* changes came before.
C12_FiltersEqualSelection == Settled => filters = CascadeSelection


\* C13: the classification filter of the Skills page is "any of": with a
\* non-empty set of checked classifications a skill passing the other filters
\* is shown iff it has a positive count for one of them; checking one more
\* classification removes no shown skill, and unchecking the last one shows
\* every skill passing the other filters.
C13_PassesOthers(skill) ==
    /\ skFilters.category = All \/ skFilters.category = skill.category
    /\ skFilters.role = All \/ skFilters.role = skill.name
    /\ \/ skSearch = Empty
       \/ \E field \in {skill.name, skill.id, skill.category} :
              strIncludes(toLowerCase(field), toLowerCase(skSearch))

C13_Elems(seq) == {seq[i] : i \in DOMAIN seq}

C13_Checked(f) == C13_Elems(f.classifications)

C13_AnyOfMonotone ==
    /\ [](skShown # Undef /\ skSkills # Undef /\ skFilters.classifications # <<>>
            => \A skill \in C13_Elems(skSkills[1]) :
                   C13_PassesOthers(skill) =>
                       (skill \in C13_Elems(skShown[1])
                          <=> \E cls \in C13_Checked(skFilters) :
                                  skill.classifications[cls] > 0))
    /\ [][(skShown # Undef /\ skShown' # Undef /\ skSkills # Undef)
            => /\ (/\ C13_Checked(skFilters) # {}
                   /\ C13_Checked(skFilters) \subseteq C13_Checked(skFilters'))
                      => C13_Elems(skShown[1]) \subseteq C13_Elems(skShown'[1])
               /\ (C13_Checked(skFilters) # {} /\ C13_Checked(skFilters') = {})
                      => skShown'[1] = SelectSeq(skSkills[1], C13_PassesOthers)]_vars

\* C13 witness: a second classification was checked and a skill without a
\* count for the first one is now shown next to one that was shown before.
C13_Witness ==
    /\ skShown # Undef
    /\ skSkills # Undef
    /\ skFilters.classifications = <<Augment, Replace>>
    /\ skFilters.category = All /\ skFilters.role = All /\ skSearch = Empty
    /\ Len(skSkills[1]) = 2
    /\ skSkills[1][1].classifications[Augment] > 0
    /\ skSkills[1][2].classifications[Augment] = 0
    /\ Len(skShown[1]) = 2

\* C14: on the Skills page a change of the selected task alone leaves
\* filteredSkills as it was.
C14_TaskHasNoEffect ==
    [][(/\ skShown # Undef
        /\ skShown' # Undef
        /\ skFilters' # skFilters
        /\ skFilters' = [skFilters EXCEPT !.taskId = skFilters'.taskId])
       => skShown' = skShown]_vars

\* C14 witness: a task is selected under a selected role and the role's card
\* is shown.
C14_Witness ==
    /\ skShown # Undef
    /\ skSkills # Undef
    /\ skFilters.role = <<"R", "a">>
    /\ skFilters.taskId = <<"t", "1">>
    /\ skFilters.classifications = <<>>
    /\ Len(skSkills[1]) = 2
    /\ Len(skShown[1]) = 1


\* C15: the params fetchResources hands to api.get have no undefined value;
\* job_role travels under the key "role" and never under "job_role"; page
\* and limit are sent exactly when given; resource_type and difficulty are
\* never sent.
C15_ParamMapping ==
    frSent # Undef =>
        LET sent == frSent[1]
        IN  /\ \A k \in DOMAIN sent : sent[k] # Undef
            /\ "job_role" \notin DOMAIN sent
            /\ ("role" \in DOMAIN sent) = (frParams.job_role # Undef)
            /\ "role" \in DOMAIN sent => sent["role"] = frParams.job_role
            /\ ("page" \in DOMAIN sent) = (frParams.page # Undef)
            /\ "page" \in DOMAIN sent => sent["page"] = frParams.page
            /\ ("limit" \in DOMAIN sent) = (frParams.limit # Undef)
            /\ "limit" \in DOMAIN sent => sent["limit"] = frParams.limit
            /\ "resource_type" \notin DOMAIN sent
            /\ "difficulty" \notin DOMAIN sent

\* C15 witness: a call with job_role and limit but no page sent exactly the
\* keys role and limit.
C15_Witness ==
    /\ frSent # Undef
    /\ frParams.job_role = Some(<<"R", "a">>)
    /\ frParams.page = Undef
    /\ frParams.limit # Undef
    /\ DOMAIN frSent[1] = {"role", "limit"}
    /\ frSent[1]["role"] = Some(<<"R", "a">>)

====
